---- MODULE Spec2Model ----
(***************************************************************************)
(* Dependency resolver: a package dependency graph (adjacency sets plus an *)
(* in-degree counter per package) and its analyses: depth-first cycle      *)
(* detection, Kahn's topological sort, version-conflict detection, graph   *)
(* visualisation and reverse-dependency impact analysis.                   *)
(*                                                                         *)
(* Two specifications share the definitions below.  Spec runs every call   *)
(* as one atomic action.  SpecSteps runs detectCycle and topologicalSort   *)
(* one traversal step at a time, for the termination property.             *)
(*                                                                         *)
(* The iteration order of std::unordered_map / std::unordered_set is       *)
(* unspecified, so every loop over such a container is modelled as a       *)
(* nondeterministic choice of the order.                                   *)
(***************************************************************************)
EXTENDS Integers, Sequences, FiniteSets, Bags, TLC

\* Bound on the number of addPackage/addDependency calls of a run.
MaxCalls == 4
\* The same bound for the runs of SpecSteps.
MaxStepCalls == 3
\* Bound on the number of topologicalSort calls of a run.
MaxSorts == 2

\* class Package: identity is the pair (name, version).
Packages ==
    { [name |-> "pkgA", version |-> "1.0"],
      [name |-> "pkgB", version |-> "1.0"],
      [name |-> "pkgC", version |-> "2.0"] }

VARIABLES
    graph,      \* DependencyGraph::graph: Package -> set of Package
    inDegree,   \* DependencyGraph::inDegree: Package -> int
    calls,      \* number of addPackage/addDependency calls made so far
    sortRuns,   \* number of topologicalSort calls made so far
    rebuilt,    \* TRUE when addPackage/addDependency ran after a sort
    registered, \* the packages that were passed to addPackage
    last,       \* the most recent call and what it returned or printed
    dfs,        \* SpecSteps: the locals of a running detectCycle
    srt         \* SpecSteps: the locals of a running topologicalSort

vars == <<graph, inDegree, calls, sortRuns, rebuilt, registered, last, dfs, srt>>

----------------------------------------------------------------------------
\* Containers

\* The empty std::unordered_map.
EmptyMap == [p \in {} |-> 0]

\* All orders in which a loop may iterate over the unordered container S.
IterationOrders(S) ==
    { f \in [1..Cardinality(S) -> S] :
        \A i, j \in 1..Cardinality(S) : i /= j => f[i] /= f[j] }

\* std::unordered_map::operator[] followed by an assignment.
MapPut(m, k, v) == [q \in DOMAIN m \cup {k} |-> IF q = k THEN v ELSE m[q]]

----------------------------------------------------------------------------
\* class DependencyGraph

\* graph.find(pkg) != graph.end()
packageExists(g, pkg) == pkg \in DOMAIN g

\* graph.at(pkg): the dependency set, or threw = TRUE for the
\* std::out_of_range that at() throws when pkg is not a key.
getDependencies(g, pkg) ==
    [threw |-> pkg \notin DOMAIN g,
     value |-> IF pkg \in DOMAIN g THEN g[pkg] ELSE {}]

\* inDegree.at(pkg): the counter, or threw = TRUE for std::out_of_range.
getInDegree(deg, pkg) ==
    [threw |-> pkg \notin DOMAIN deg,
     value |-> IF pkg \in DOMAIN deg THEN deg[pkg] ELSE 0]

\* inDegree[pkg] = degree
setInDegree(deg, pkg, degree) == MapPut(deg, pkg, degree)

\* What a call leaves in `last`.
Outcome(op, threw, flag, order, arg, dependents, edges) ==
    [op |-> op, threw |-> threw, flag |-> flag, order |-> order,
     arg |-> arg, dependents |-> dependents, edges |-> edges]

NoOutcome(op) == Outcome(op, FALSE, FALSE, <<>>, {}, EmptyBag, EmptyBag)

DfsIdle ==
    [status |-> "idle", result |-> FALSE, visited |-> {}, recStack |-> {},
     todo |-> {}, stack |-> <<>>]

SrtIdle == [status |-> "idle", queue |-> <<>>, sorted |-> <<>>, deg |-> EmptyMap]

Init ==
    /\ graph = EmptyMap
    /\ inDegree = EmptyMap
    /\ calls = 0
    /\ sortRuns = 0
    /\ rebuilt = FALSE
    /\ registered = {}
    /\ last = NoOutcome("construct")
    /\ dfs = DfsIdle
    /\ srt = SrtIdle

\* No detectCycle or topologicalSort call is in progress (single-threaded).
Idle == dfs.status = "idle" /\ srt.status = "idle"

\* void addPackage(const Package& pkg)
addPackageGraph(g, pkg) == IF pkg \notin DOMAIN g THEN MapPut(g, pkg, {}) ELSE g
addPackageInDegree(deg, pkg) == MapPut(deg, pkg, 0)

addPackage(pkg) ==
    /\ Idle
    /\ calls < MaxCalls
    /\ graph' = addPackageGraph(graph, pkg)
    /\ inDegree' = addPackageInDegree(inDegree, pkg)
    /\ calls' = calls + 1
    /\ rebuilt' = (rebuilt \/ sortRuns > 0)
    /\ registered' = registered \cup {pkg}
    /\ last' = NoOutcome("addPackage")
    /\ UNCHANGED <<sortRuns, dfs, srt>>

\* void addDependency(const Package& pkg, const Package& dependency)
addDependencyGraph(g, pkg, dependency) ==
    MapPut(g, pkg, (IF pkg \in DOMAIN g THEN g[pkg] ELSE {}) \cup {dependency})
addDependencyInDegree(deg, dependency) ==
    MapPut(deg, dependency,
           (IF dependency \in DOMAIN deg THEN deg[dependency] ELSE 0) + 1)

addDependency(pkg, dependency) ==
    /\ Idle
    /\ calls < MaxCalls
    /\ graph' = addDependencyGraph(graph, pkg, dependency)
    /\ inDegree' = addDependencyInDegree(inDegree, dependency)
    /\ calls' = calls + 1
    /\ rebuilt' = (rebuilt \/ sortRuns > 0)
    /\ last' = NoOutcome("addDependency")
    /\ UNCHANGED <<sortRuns, registered, dfs, srt>>

----------------------------------------------------------------------------
\* Graph vocabulary

\* The dependency edges (p -> d) of the adjacency mapping.
Edges(g) == { e \in Packages \X Packages : e[1] \in DOMAIN g /\ e[2] \in g[e[1]] }

Successors(g, S) == UNION { g[p] : p \in S \cap DOMAIN g }

RECURSIVE Closure(_, _)
Closure(g, S) ==
    LET n == S \cup Successors(g, S)
    IN  IF n = S THEN S ELSE Closure(g, n)

\* The packages reachable from p along one or more edges.
Descendants(g, p) == Closure(g, Successors(g, {p}))

----------------------------------------------------------------------------
\* class CycleDetector

\* detectCycle's locals before its loop: empty visited and recStack, every
\* key of graph.graph still to be iterated, no detectCycleUtil frame active.
DfsStart(g) ==
    [status |-> "run", result |-> FALSE, visited |-> {}, recStack |-> {},
     todo |-> DOMAIN g, stack |-> <<>>]

\* Entry of detectCycleUtil(pkg, ...) up to its dependency loop.  A true
\* return propagates through every caller, so it ends the whole detection.
detectCycleUtil(g, s, pkg) ==
    IF pkg \in s.recStack
    THEN [s EXCEPT !.status = "done", !.result = TRUE]
    ELSE IF pkg \in s.visited
    THEN s
    ELSE LET deps == getDependencies(g, pkg)
             t == [s EXCEPT !.visited = @ \cup {pkg}, !.recStack = @ \cup {pkg}]
         IN  IF deps.threw
             THEN [t EXCEPT !.status = "threw"]
             ELSE [t EXCEPT !.stack = Append(@, [pkg |-> pkg, rest |-> deps.value])]

\* One step of the traversal: the next iteration of the innermost running
\* loop (detectCycle's loop over the keys, or a frame's loop over its
\* dependencies), or a frame's return after its loop.
DfsStepSet(g, s) ==
    IF s.stack = <<>>
    THEN IF s.todo = {}
         THEN { [s EXCEPT !.status = "done", !.result = FALSE] }
         ELSE { detectCycleUtil(g, [s EXCEPT !.todo = @ \ {k}], k) : k \in s.todo }
    ELSE LET n == Len(s.stack)
             top == s.stack[n]
         IN  IF top.rest = {}
             THEN { [s EXCEPT !.recStack = @ \ {top.pkg},
                              !.stack = SubSeq(@, 1, n - 1)] }
             ELSE { detectCycleUtil(g, [s EXCEPT !.stack[n].rest = @ \ {d}], d) :
                      d \in top.rest }

\* Every way a detection running from s can end: [threw, result].
RECURSIVE DfsRun(_, _)
DfsRun(g, s) ==
    IF s.status /= "run"
    THEN { [threw |-> s.status = "threw", result |-> s.result] }
    ELSE UNION { DfsRun(g, t) : t \in DfsStepSet(g, s) }

\* Mutant of detectCycle: the dependency lookup is graph.graph[pkg], which
\* inserts an empty set for a missing key instead of throwing.
AutoCreated(g) ==
    [q \in DOMAIN g \cup { e[2] : e \in Edges(g) } |->
        IF q \in DOMAIN g THEN g[q] ELSE {}]

detectCycle_OperatorIndex ==
    /\ Idle
    /\ \E o \in DfsRun(AutoCreated(graph), DfsStart(graph)) :
         last' = Outcome("detectCycle", o.threw, o.result, <<>>, {},
                         EmptyBag, EmptyBag)
    /\ graph' = AutoCreated(graph)
    /\ UNCHANGED <<inDegree, calls, sortRuns, rebuilt, registered, dfs, srt>>

\* bool detectCycle(DependencyGraph& graph)
detectCycle ==
    /\ Idle
    /\ \E o \in DfsRun(graph, DfsStart(graph)) :
         last' = Outcome("detectCycle", o.threw, o.result, <<>>, {},
                         EmptyBag, EmptyBag)
    /\ UNCHANGED <<graph, inDegree, calls, sortRuns, rebuilt, registered, dfs, srt>>

----------------------------------------------------------------------------
\* class TopologicalSorter

\* Mutant of SortStart: the seeding test is getInDegree(..) <= 0.
SortStart_SeedNonPositive(g, deg) ==
    IF \E k \in DOMAIN g : getInDegree(deg, k).threw
    THEN { [status |-> "threw", queue |-> <<>>, sorted |-> <<>>, deg |-> deg] }
    ELSE { [status |-> "run", queue |-> q, sorted |-> <<>>, deg |-> deg] :
             q \in IterationOrders({ k \in DOMAIN g : getInDegree(deg, k).value <= 0 }) }

\* The seeding loop: every key whose counter is 0 is pushed, in iteration
\* order; getInDegree throws on a key that has no counter.
SortStart(g, deg) ==
    IF \E k \in DOMAIN g : getInDegree(deg, k).threw
    THEN { [status |-> "threw", queue |-> <<>>, sorted |-> <<>>, deg |-> deg] }
    ELSE { [status |-> "run", queue |-> q, sorted |-> <<>>, deg |-> deg] :
             q \in IterationOrders({ k \in DOMAIN g : getInDegree(deg, k).value = 0 }) }

\* setInDegree(dep, getInDegree(dep) - 1) for every dep of deps.
RECURSIVE DecrementAll(_, _)
DecrementAll(deg, deps) ==
    IF deps = {}
    THEN deg
    ELSE LET dep == CHOOSE d \in deps : TRUE
         IN  DecrementAll(setInDegree(deg, dep, getInDegree(deg, dep).value - 1),
                          deps \ {dep})

\* Mutant of ReachZero: the push test is getInDegree(dep) <= 0.
ReachZero_NonPositive(deg, deps) == { d \in deps : getInDegree(deg, d).value - 1 <= 0 }

\* The dependencies whose counter the inner loop brings to 0.
ReachZero(deg, deps) == { d \in deps : getInDegree(deg, d).value - 1 = 0 }

\* One iteration of the while loop: pop the front, append it to the order,
\* decrement each dependency and push those that reach 0 in iteration order.
\* With the queue empty the loop ends.
SortStepSet(g, s) ==
    IF s.queue = <<>>
    THEN { [s EXCEPT !.status = "done"] }
    ELSE LET pkg == Head(s.queue)
             deps == getDependencies(g, pkg)
             t == [s EXCEPT !.queue = Tail(@), !.sorted = Append(@, pkg)]
         IN  IF deps.threw
             THEN { [t EXCEPT !.status = "threw"] }
             ELSE IF \E d \in deps.value : getInDegree(s.deg, d).threw
             THEN { [t EXCEPT !.status = "threw", !.deg = DecrementAll(@, done)] :
                      done \in SUBSET { d \in deps.value : ~getInDegree(s.deg, d).threw } }
             ELSE { [t EXCEPT !.queue = @ \o pushed,
                              !.deg = DecrementAll(@, deps.value)] :
                      pushed \in IterationOrders(ReachZero(s.deg, deps.value)) }

\* Every way a sort running from s can end.
RECURSIVE SortRun(_, _)
SortRun(g, s) ==
    IF s.status /= "run"
    THEN { s }
    ELSE UNION { SortRun(g, t) : t \in SortStepSet(g, s) }

\* What a finished sort reports: the order it built, and whether it took
\* the "Cycle detected!" branch.
SortOutcome(g, f) ==
    Outcome("topologicalSort", f.status = "threw",
            f.status /= "threw" /\ Len(f.sorted) /= Cardinality(DOMAIN g),
            f.sorted, {}, EmptyBag, EmptyBag)

\* void topologicalSort(DependencyGraph& graph)
topologicalSort ==
    /\ Idle
    /\ sortRuns < MaxSorts
    /\ \E s \in SortStart(graph, inDegree) :
         \E f \in SortRun(graph, s) :
            /\ inDegree' = f.deg
            /\ last' = SortOutcome(graph, f)
    /\ sortRuns' = sortRuns + 1
    /\ UNCHANGED <<graph, calls, rebuilt, registered, dfs, srt>>

----------------------------------------------------------------------------
\* class VersionResolver, ConflictDetector, Visualizer, ImpactAnalyzer

resolveVersion(pkg1, pkg2) == pkg1.version = pkg2.version

\* bool detectConflict(DependencyGraph& graph): true at the first edge
\* whose two versions differ, false when the loops end.
detectConflictResult(g) ==
    \E pkg \in DOMAIN g : \E dep \in g[pkg] : ~resolveVersion(pkg, dep)

detectConflict ==
    /\ Idle
    /\ last' = Outcome("detectConflict", FALSE, detectConflictResult(graph),
                       <<>>, {}, EmptyBag, EmptyBag)
    /\ UNCHANGED <<graph, inDegree, calls, sortRuns, rebuilt, registered, dfs, srt>>

\* The edge lines visualize prints for the keys `keys`, as a bag.
RECURSIVE VisualizeLines(_, _)
VisualizeLines(g, keys) ==
    IF keys = {}
    THEN EmptyBag
    ELSE LET k == CHOOSE x \in keys : TRUE
         IN  SetToBag({ <<k, dep>> : dep \in g[k] }) (+) VisualizeLines(g, keys \ {k})

\* void visualize(const DependencyGraph& graph)
visualize ==
    /\ Idle
    /\ last' = Outcome("visualize", FALSE, FALSE, <<>>, {}, EmptyBag,
                       VisualizeLines(graph, DOMAIN graph))
    /\ UNCHANGED <<graph, inDegree, calls, sortRuns, rebuilt, registered, dfs, srt>>

\* Mutant of ImpactLines: a package is reported when pkg is reachable from
\* it, not only when pkg is in its own dependency set.
RECURSIVE ImpactLines_Transitive(_, _, _)
ImpactLines_Transitive(g, keys, pkg) ==
    IF keys = {}
    THEN EmptyBag
    ELSE LET k == CHOOSE x \in keys : TRUE
         IN  (IF pkg \in Descendants(g, k) THEN SetToBag({k}) ELSE EmptyBag)
                (+) ImpactLines_Transitive(g, keys \ {k}, pkg)

\* The "Package X depends on pkg" lines analyzeImpact prints for the keys
\* `keys`, as the bag of the packages X.
RECURSIVE ImpactLines(_, _, _)
ImpactLines(g, keys, pkg) ==
    IF keys = {}
    THEN EmptyBag
    ELSE LET k == CHOOSE x \in keys : TRUE
         IN  (IF pkg \in g[k] THEN SetToBag({k}) ELSE EmptyBag)
                (+) ImpactLines(g, keys \ {k}, pkg)

\* void analyzeImpact(DependencyGraph& graph, const Package& pkg)
analyzeImpact(pkg) ==
    /\ Idle
    /\ last' = Outcome("analyzeImpact", FALSE, FALSE, <<>>, {pkg},
                       ImpactLines(graph, DOMAIN graph, pkg), EmptyBag)
    /\ UNCHANGED <<graph, inDegree, calls, sortRuns, rebuilt, registered, dfs, srt>>

----------------------------------------------------------------------------
\* Spec: every call is one atomic action.

Next ==
    \/ \E pkg \in Packages : addPackage(pkg)
    \/ \E pkg, dependency \in Packages : addDependency(pkg, dependency)
    \/ detectCycle
    \/ topologicalSort
    \/ detectConflict
    \/ visualize
    \/ \E pkg \in Packages : analyzeImpact(pkg)

Spec == Init /\ [][Next]_vars
----------------------------------------------------------------------------
\* SpecSteps: detectCycle and topologicalSort run one traversal step at a
\* time.  The program is single-threaded, so nothing else runs meanwhile.

\* detectCycle is called: its locals are constructed.
detectCycleBegin ==
    /\ Idle
    /\ dfs' = DfsStart(graph)
    /\ UNCHANGED <<graph, inDegree, calls, sortRuns, rebuilt, registered, last, srt>>

\* One traversal step of the running detectCycle; the step that ends it
\* returns to the caller.
detectCycleStep ==
    /\ dfs.status = "run"
    /\ \E t \in DfsStepSet(graph, dfs) :
         IF t.status = "run"
         THEN dfs' = t /\ last' = last
         ELSE /\ dfs' = DfsIdle
              /\ last' = Outcome("detectCycle", t.status = "threw", t.result,
                                 <<>>, {}, EmptyBag, EmptyBag)
    /\ UNCHANGED <<graph, inDegree, calls, sortRuns, rebuilt, registered, srt>>

\* topologicalSort is called: the seeding loop runs.
topologicalSortBegin ==
    /\ Idle
    /\ sortRuns < MaxSorts
    /\ \E s \in SortStart(graph, inDegree) :
         IF s.status = "run"
         THEN srt' = s /\ last' = last
         ELSE srt' = SrtIdle /\ last' = SortOutcome(graph, s)
    /\ sortRuns' = sortRuns + 1
    /\ UNCHANGED <<graph, inDegree, calls, rebuilt, registered, dfs>>

\* One iteration of the running sort's while loop; the step that finds the
\* queue empty reports and returns.
topologicalSortStep ==
    /\ srt.status = "run"
    /\ \E t \in SortStepSet(graph, srt) :
         /\ inDegree' = t.deg
         /\ IF t.status = "run"
            THEN srt' = t /\ last' = last
            ELSE srt' = SrtIdle /\ last' = SortOutcome(graph, t)
    /\ UNCHANGED <<graph, calls, sortRuns, rebuilt, registered, dfs>>

NextSteps ==
    \/ \E pkg \in Packages : calls < MaxStepCalls /\ addPackage(pkg)
    \/ \E pkg, dependency \in Packages :
          calls < MaxStepCalls /\ addDependency(pkg, dependency)
    \/ detectCycleBegin
    \/ detectCycleStep
    \/ topologicalSortBegin
    \/ topologicalSortStep

\* A running call keeps running: the thread executing it is never starved.
SpecSteps ==
    /\ Init
    /\ [][NextSteps]_vars
    /\ WF_vars(detectCycleStep)
    /\ WF_vars(topologicalSortStep)

----------------------------------------------------------------------------
\* Vocabulary of the properties

HasCycle(g) == \E p \in DOMAIN g : p \in Descendants(g, p)

\* Both endpoints of every edge were registered with addPackage.
AllRegistered == \A e \in Edges(graph) : {e[1], e[2]} \subseteq registered

Range(seq) == { seq[i] : i \in 1..Len(seq) }

Pos(seq, x) == CHOOSE i \in 1..Len(seq) : seq[i] = x

\* The number of edges of g whose target is p.
IncomingEdges(g, p) == Cardinality({ e \in Edges(g) : e[2] = p })

FirstSortDone == last.op = "topologicalSort" /\ sortRuns = 1

Busy == dfs.status = "run" \/ srt.status = "run"

----------------------------------------------------------------------------
\* Properties

\* C1: on an acyclic graph whose edge endpoints are all registered,
\* detectCycle returns false and the first topologicalSort produces an
\* order as long as the number of packages.
C1_AcyclicSignalsAgree ==
    (AllRegistered /\ ~HasCycle(graph)) =>
        /\ last.op = "detectCycle" => (~last.threw /\ ~last.flag)
        /\ FirstSortDone =>
              (~last.threw /\ Len(last.order) = Cardinality(DOMAIN graph))

\* C2: on a graph with a cycle whose edge endpoints are all registered,
\* detectCycle returns true and the first topologicalSort produces an order
\* strictly shorter than the number of packages and reports the cycle.
C2_CyclicSignalsAgree ==
    (AllRegistered /\ HasCycle(graph)) =>
        /\ last.op = "detectCycle" => (~last.threw /\ last.flag)
        /\ FirstSortDone =>
              /\ Len(last.order) < Cardinality(DOMAIN graph)
              /\ last.flag

\* C3: in the order of the first topologicalSort on an acyclic graph (its
\* edge endpoints all registered), for every edge p -> d the dependent p is
\* strictly before its dependency d.
C3_DependentsFirst ==
    (FirstSortDone /\ AllRegistered /\ ~HasCycle(graph)) =>
        \A e \in Edges(graph) :
            /\ e[1] \in Range(last.order)
            /\ e[2] \in Range(last.order)
            /\ Pos(last.order, e[1]) < Pos(last.order, e[2])

\* C4: before any sort, every stored in-degree counter equals the number of
\* edges of the adjacency mapping that point at its package.
C4_InDegreeIsDerived ==
    sortRuns = 0 =>
        \A p \in DOMAIN inDegree : inDegree[p] = IncomingEdges(graph, p)

\* C5: addPackage(p) of an already registered p leaves p's in-degree
\* counter and p's dependency set as they were.
C5_AddPackageIdempotent ==
    [][\A p \in registered :
          addPackage(p) => (inDegree'[p] = inDegree[p] /\ graph'[p] = graph[p])]_vars

\* C7: with a dependency target that was never registered and so has an
\* in-degree counter but no adjacency entry (every package with
\* dependencies being registered), detectCycle and topologicalSort
\* complete without NotFound.
C7_ToleratesMissingEntry ==
    ( /\ \E e \in Edges(graph) :
            e[2] \notin registered /\ e[2] \in DOMAIN inDegree \ DOMAIN graph
      /\ \A e \in Edges(graph) : e[1] \in registered
      /\ last.op \in {"detectCycle", "topologicalSort"} )
    => ~last.threw

ZeroCounterKeys(g, deg) == { p \in DOMAIN g \cap DOMAIN deg : deg[p] = 0 }

C8_ImpactIsDirectDependents ==
    last.op = "analyzeImpact" =>
        \A T \in last.arg :
            last.dependents = SetToBag({ p \in DOMAIN graph : T \in graph[p] })

\* analyzeImpact ran for a target that has a direct dependent and a
\* dependent that reaches it only through another package.
C8_Witness ==
    /\ last.op = "analyzeImpact"
    /\ \E T \in last.arg :
         /\ \E p \in DOMAIN graph : T \in graph[p]
         /\ \E p \in DOMAIN graph : T \in Descendants(graph, p) /\ T \notin graph[p]

Analyses ==
    {"detectCycle", "topologicalSort", "detectConflict", "visualize", "analyzeImpact"}

\* C9: every analysis leaves the package set and the edge set unchanged;
\* every analysis but the sorter leaves the in-degree counters unchanged;
\* detectConflict, visualize and analyzeImpact run again on the unmodified
\* graph give the result they gave before.
C9_AnalysesReadOnly ==
    [][/\ last'.op \in Analyses => graph' = graph
       /\ last'.op \in Analyses \ {"topologicalSort"} => inDegree' = inDegree
       /\ ( /\ last'.op \in {"detectConflict", "visualize", "analyzeImpact"}
            /\ last.op = last'.op
            /\ last.arg = last'.arg )
          => last' = last]_vars

\* analyzeImpact reported dependents after two sorts on a graph with a
\* dependency target that has no adjacency entry.
C9_Witness ==
    /\ last.op = "analyzeImpact"
    /\ last.dependents /= EmptyBag
    /\ sortRuns = 2
    /\ \E e \in Edges(graph) : e[2] \notin DOMAIN graph

\* C10: on a graph whose edge endpoints are all registered, a running
\* detectCycle or topologicalSort ends, whatever the counters hold; no
\* package is in the sorter's queue or order twice.
C10_Terminates ==
    /\ (Busy /\ AllRegistered) ~> ~Busy
    /\ [](\A i, j \in 1..Len(srt.sorted \o srt.queue) :
            i /= j => (srt.sorted \o srt.queue)[i] /= (srt.sorted \o srt.queue)[j])

\* A second sort of a cyclic graph with registered endpoints has ended.
C10_Witness ==
    /\ ~Busy
    /\ AllRegistered
    /\ HasCycle(graph)
    /\ last.op = "topologicalSort"
    /\ sortRuns = 2
====
